---- MODULE Spec2Model ----
(***************************************************************************)
(* geometer/utils/polynomial.py: conversion between sympy polynomials and  *)
(* dense numpy coefficient arrays, and evaluation of such an array at a    *)
(* point.  Each call of one of the three functions is a behaviour: Init    *)
(* draws the function and its arguments, the actions run its body.         *)
(***************************************************************************)
EXTENDS Integers, Sequences, FiniteSets, TLC

VARIABLES fn, arg_x, arg_c, arg_p, arg_symbols, pc, k, cur, ret, err

vars == <<fn, arg_x, arg_c, arg_p, arg_symbols, pc, k, cur, ret, err>>

\* ------------------------------------------------------------------ bounds
\* Largest number of axes / variables.
MaxDim == 2
\* Largest length m of an axis of an enumerated array of shape (m,...,m).
MaxSide == 3
\* Largest number of entries of an enumerated array.
MaxEntries == 9
\* Largest total degree of a term of an enumerated expression.
MaxDeg == 2

\* Entries of enumerated arrays and coefficients of enumerated expressions.
ArrVals == {-1, 1, 2}
\* Components of enumerated points.
PointVals == {-1, 0, 2}

\* ----------------------------------------------------------------- values
\* Python's None.
None == [kind |-> "None"]

RECURSIVE Pow(_, _)
\* b ** e for an integer e >= 0.
Pow(b, e) == IF e = 0 THEN 1 ELSE b * Pow(b, e - 1)

RECURSIVE SumOver(_, _)
\* The sum of f[i] over the finite set S, S a subset of DOMAIN f.
SumOver(f, S) ==
  IF S = {} THEN 0
  ELSE LET i == CHOOSE j \in S : TRUE IN f[i] + SumOver(f, S \ {i})

\* The largest element of a sequence of naturals (0 for the empty one).
SeqMax(s) ==
  IF s = <<>> THEN 0
  ELSE CHOOSE v \in {s[i] : i \in 1..Len(s)} : \A i \in 1..Len(s) : s[i] <= v

\* The elements of a sequence.
RangeOf(s) == {s[i] : i \in 1..Len(s)}

\* ------------------------------------------------------------ numpy arrays
\* c.shape of a cubic array: n axes of length m.
Cube(n, m) == [i \in 1..n |-> m]

\* The index tuples of an array of the given shape (0-based, one per entry).
Indices(shape) ==
  {idx \in [1..Len(shape) -> 0..(SeqMax(shape) - 1)] :
      \A i \in 1..Len(shape) : idx[i] < shape[i]}

\* A numpy.ndarray: its shape and its entries by index tuple.
NdArray(shape, data) == [kind |-> "ndarray", shape |-> shape, data |-> data]

\* np.zeros(shape).
np_zeros(shape) == NdArray(shape, [idx \in Indices(shape) |-> 0])

\* SubArray indexing the trailing axis instead: c[..., j].
SubArray_Trailing(c, j) ==
  NdArray(SubSeq(c.shape, 1, Len(c.shape) - 1),
          [idx \in Indices(SubSeq(c.shape, 1, Len(c.shape) - 1)) |->
             c.data[idx \o <<j>>]])

\* c[j]: the sub-array at index j of the leading axis.
SubArray(c, j) ==
  NdArray(Tail(c.shape),
          [idx \in Indices(Tail(c.shape)) |-> c.data[<<j>> \o idx]])

\* a + b, entry by entry, for arrays of one shape.
ArrAdd(a, b) == NdArray(a.shape, [idx \in DOMAIN a.data |-> a.data[idx] + b.data[idx]])

\* a + s for a scalar s.
ArrAddScalar(a, s) == NdArray(a.shape, [idx \in DOMAIN a.data |-> a.data[idx] + s])

\* a * s for a scalar s.
ArrScale(a, s) == NdArray(a.shape, [idx \in DOMAIN a.data |-> a.data[idx] * s])

\* np.array(c, ndmin=1): a zero-axis array becomes an array of shape (1,).
AtLeast1d(c) ==
  IF c.shape = <<>> THEN NdArray(<<1>>, [idx \in Indices(<<1>>) |-> c.data[<<>>]])
  ELSE c

RECURSIVE HornerLoop(_, _, _, _)
\* for i in range(2, len(c) + 1): c0 = c[-i] + c0*x
HornerLoop(xv, c, i, c0) ==
  IF i > Head(c.shape) THEN c0
  ELSE HornerLoop(xv, c, i + 1,
                  ArrAdd(SubArray(c, Head(c.shape) - i), ArrScale(c0, xv)))

RECURSIVE HornerLoop_Descending(_, _, _, _)
HornerLoop_Descending(xv, c, i, c0) ==
  IF i >= Head(c.shape) THEN c0
  ELSE HornerLoop_Descending(xv, c, i + 1,
                             ArrAdd(SubArray(c, i), ArrScale(c0, xv)))

\* np_polyval reading the coefficients highest degree first (numpy.polyval's
\* convention): index 0 taken as the leading coefficient.
np_polyval_Descending(xv, c) ==
  HornerLoop_Descending(xv, AtLeast1d(c), 1, SubArray(AtLeast1d(c), 0))

\* numpy.polynomial.polynomial.polyval(x, c, tensor=False) for a scalar x:
\* Horner's rule along the leading axis, index = exponent:
\* c0 = c[-1] + x*0, then the loop.
np_polyval(xv, c) ==
  LET c1 == AtLeast1d(c)
      c0 == ArrAddScalar(SubArray(c1, Head(c1.shape) - 1), xv * 0)
  IN HornerLoop(xv, c1, 2, c0)

\* ----------------------------------------------------------------- polyval
\* DimensionCheck rejecting only a point that is too long.
DimensionCheck_TooLongOnly(x, c) == Len(x) > Len(c.shape)

\* if len(x) != len(c.shape): raise ValueError(...)
DimensionCheck(x, c) == Len(x) /= Len(c.shape)

RECURSIVE PolyvalLoop(_, _, _)
\* polynomial.py:33-34: for xi in x: c = pl.polyval(xi, c, tensor=False),
\* from the i-th component of x on.
PolyvalLoop(x, c, i) ==
  IF i > Len(x) THEN c ELSE PolyvalLoop(x, np_polyval(x[i], c), i + 1)

\* polynomial.py:8-35: polyval(x, c) as a whole.
polyval(x, c) ==
  IF DimensionCheck(x, c) THEN [err |-> "ValueError", ret |-> None]
  ELSE [err |-> "none", ret |-> PolyvalLoop(x, c, 1)]

\* The inputs of polyval: an array of shape (m,...,m) with at most two
\* non-zero entries, and a point of any length up to MaxDim.
SparseArray(shape, p1, v1, p2, v2) ==
  NdArray(shape, [idx \in Indices(shape) |->
                    IF idx = p2 THEN v2 ELSE IF idx = p1 THEN v1 ELSE 0])

\* The shapes (m,...,m) of the enumerated arrays.
Shapes(minDim) ==
  {sh \in {Cube(n, m) : n \in minDim..MaxDim, m \in 1..MaxSide} :
      Cardinality(Indices(sh)) <= MaxEntries}

Arrays(shape) ==
  {SparseArray(shape, p1, v1, p2, v2) :
      p1 \in Indices(shape), p2 \in Indices(shape),
      v1 \in ArrVals \cup {0}, v2 \in ArrVals \cup {0}}

Points(n) == [1..n -> PointVals]

InitPolyval ==
  /\ fn = "polyval"
  /\ \E shape \in Shapes(0) : arg_c \in Arrays(shape)
  /\ \E n \in 0..MaxDim : arg_x \in Points(n)
  /\ arg_p = None
  /\ arg_symbols = <<>>
  /\ pc = "start"
  /\ k = 0
  /\ cur = None
  /\ ret = None
  /\ err = "none"

\* polynomial.py:31-32: the dimension check, then c is the loop's array.
PolyvalEnter ==
  /\ fn = "polyval"
  /\ pc = "start"
  /\ IF DimensionCheck(arg_x, arg_c)
     THEN /\ pc' = "raised"
          /\ err' = "ValueError"
          /\ cur' = cur
     ELSE /\ pc' = "loop"
          /\ err' = err
          /\ cur' = arg_c
  /\ UNCHANGED <<fn, arg_x, arg_c, arg_p, arg_symbols, k, ret>>

\* polynomial.py:33-34: one iteration of `for xi in x`.
PolyvalStep ==
  /\ fn = "polyval"
  /\ pc = "loop"
  /\ k < Len(arg_x)
  /\ cur' = np_polyval(arg_x[k + 1], cur)
  /\ k' = k + 1
  /\ UNCHANGED <<fn, arg_x, arg_c, arg_p, arg_symbols, pc, ret, err>>

\* polynomial.py:35: return c.
PolyvalReturn ==
  /\ fn = "polyval"
  /\ pc = "loop"
  /\ k = Len(arg_x)
  /\ ret' = cur
  /\ pc' = "done"
  /\ UNCHANGED <<fn, arg_x, arg_c, arg_p, arg_symbols, k, cur, err>>

\* --------------------------------------------------------------- itertools
RECURSIVE Stride(_, _)
\* The number of index tuples that share their first i components.
Stride(shape, i) ==
  IF i >= Len(shape) THEN 1 ELSE shape[i + 1] * Stride(shape, i + 1)

\* itertools.product(*[range(s) for s in shape]) as the sequence it yields:
\* lexicographic, the last component running fastest.
Product(shape) ==
  [t \in 1..Stride(shape, 0) |->
     [i \in 1..Len(shape) |-> ((t - 1) \div Stride(shape, i)) % shape[i]]]

\* ------------------------------------------------------------------- sympy
\* The symbols sympy.abc supplies, and the first n of them as a variable list.
VarNames == <<"x", "y", "z">>
Symbols(n) == SubSeq(VarNames, 1, n)

\* An exponent num/den; a power product maps each symbol occurring in it to
\* its non-zero exponent (s ** 0 is 1 and does not occur).
IsNatExp(e) == e[2] = 1 /\ e[1] >= 0
One == [v \in {} |-> <<0, 1>>]

\* A sympy expression in expanded form: power product -> non-zero coefficient.
Expr(terms) == [kind |-> "Expr", terms |-> terms]
\* A sympy.Poly: its generators and, per exponent tuple of the generators,
\* the non-zero coefficient, itself a sum over power products of the symbols
\* that are no generators (a number when only One occurs in it).
Poly(gens, terms) == [kind |-> "Poly", gens |-> gens, terms |-> terms]

\* ExprAdd as an assignment f = a * x: the terms summed so far are dropped.
ExprAdd_Overwrite(f, x, a) ==
  IF a = 0 THEN Expr(<<>>) ELSE Expr([y \in {x} |-> a])

\* f + a * x for an expression f, a number a and a power product x.
ExprAdd(f, x, a) ==
  LET old == IF x \in DOMAIN f.terms THEN f.terms[x] ELSE 0
      new == old + a
  IN IF new = 0
     THEN Expr([y \in DOMAIN f.terms \ {x} |-> f.terms[y]])
     ELSE Expr([y \in DOMAIN f.terms \cup {x} |-> IF y = x THEN new ELSE f.terms[y]])

\* x = 1; for i, s in enumerate(symbols): x *= s ** index[i]
\* (index[i] is read for every symbol: IndexError past the end of index).
MonomialExpr(symbols, index) ==
  IF Len(symbols) > Len(index)
  THEN [err |-> "IndexError", x |-> One]
  ELSE [err |-> "none",
        x |-> [v \in {symbols[i] : i \in {j \in 1..Len(symbols) : index[j] /= 0}} |->
                 <<index[CHOOSE i \in 1..Len(symbols) : symbols[i] = v], 1>>]]

\* The exponent tuple of a power product in the generators.
MonomOf(x, gens) ==
  [i \in 1..Len(gens) |-> IF gens[i] \in DOMAIN x THEN x[gens[i]][1] ELSE 0]

\* The part of a power product outside the generators.
ResidOf(x, gens) == [v \in DOMAIN x \ RangeOf(gens) |-> x[v]]

\* IsPolynomialIn rejecting negative exponents only.
IsPolynomialIn_NegativeOnly(p, gens) ==
  \A x \in DOMAIN p.terms : \A v \in DOMAIN x \cap RangeOf(gens) : x[v][1] >= 0

\* Whether sympy accepts the expression as a polynomial in the generators:
\* a generator under a negative or fractional exponent raises PolynomialError
\* ("contains an element of the set of generators").
IsPolynomialIn(p, gens) ==
  \A x \in DOMAIN p.terms : \A v \in DOMAIN x \cap RangeOf(gens) : IsNatExp(x[v])

\* Poly.as_expr().
as_expr(q) ==
  LET pairs == {<<m, r>> : m \in DOMAIN q.terms, r \in UNION {DOMAIN q.terms[n] : n \in DOMAIN q.terms}}
      have == {pr \in pairs : pr[2] \in DOMAIN q.terms[pr[1]]}
      PP(pr) == [v \in {q.gens[i] : i \in {j \in 1..Len(q.gens) : pr[1][j] /= 0}}
                       \cup DOMAIN pr[2] |->
                   IF v \in DOMAIN pr[2] THEN pr[2][v]
                   ELSE <<pr[1][CHOOSE i \in 1..Len(q.gens) : q.gens[i] = v], 1>>]
  IN Expr([x \in {PP(pr) : pr \in have} |->
             LET pr == CHOOSE z \in have : PP(z) = x IN q.terms[pr[1]][pr[2]]])

\* sympy.poly(p, symbols): the terms grouped by their exponent tuple in the
\* generators; symbols that are no generators stay in the coefficients.
sympy_poly(p, symbols) ==
  LET e == IF p.kind = "Poly" THEN as_expr(p) ELSE p
      T == e.terms
  IN IF ~IsPolynomialIn(e, symbols)
     THEN [err |-> "PolynomialError", poly |-> None]
     ELSE [err |-> "none",
           poly |-> Poly(symbols,
             [m \in {MonomOf(x, symbols) : x \in DOMAIN T} |->
                LET P == {x \in DOMAIN T : MonomOf(x, symbols) = m}
                IN [r \in {ResidOf(x, symbols) : x \in P} |->
                      T[CHOOSE x \in P : ResidOf(x, symbols) = r]]])]

\* Poly.monoms(): the exponent tuples of the terms; the zero polynomial lists
\* the constant monomial (with coefficient 0).
monoms(q) ==
  IF DOMAIN q.terms = {} THEN {[i \in 1..Len(q.gens) |-> 0]} ELSE DOMAIN q.terms

\* total_degree as Poly.degree(): the degree in the first generator only.
total_degree_FirstGen(q) ==
  CHOOSE d \in {m[1] : m \in monoms(q)} : \A m \in monoms(q) : m[1] <= d

\* Poly.total_degree(): max(sum(m) for m in monoms()).
total_degree(q) ==
  LET deg(m) == SumOver(m, DOMAIN m)
  IN CHOOSE d \in {deg(m) : m \in monoms(q)} : \A m \in monoms(q) : deg(m) <= d

\* coeff_monomial pairing the exponents with the generators in reverse order.
coeff_monomial_Reversed(q, x) ==
  LET m == MonomOf(x, [i \in 1..Len(q.gens) |-> q.gens[Len(q.gens) + 1 - i]])
  IN IF m \in DOMAIN q.terms THEN q.terms[m] ELSE [r \in {} |-> 0]

\* Poly.coeff_monomial(x): the coefficient of the power product x, 0 if absent.
coeff_monomial(q, x) ==
  LET m == MonomOf(x, q.gens)
  IN IF m \in DOMAIN q.terms THEN q.terms[m] ELSE [r \in {} |-> 0]

\* StoreCoeff writing at the reversed index tuple (the axes transposed).
StoreCoeff_Transposed(c, idx, coeff) ==
  IF DOMAIN coeff \subseteq {One}
  THEN [err |-> "none",
        c |-> NdArray(c.shape, [j \in DOMAIN c.data |->
                IF j = [i \in 1..Len(idx) |-> idx[Len(idx) + 1 - i]]
                THEN (IF coeff = <<>> THEN 0 ELSE coeff[One])
                ELSE c.data[j]])]
  ELSE [err |-> "TypeError", c |-> c]

\* c[idx] = coeff on a complex array: a coefficient that is no number cannot
\* be converted (TypeError), a number is stored.
StoreCoeff(c, idx, coeff) ==
  IF DOMAIN coeff \subseteq {One}
  THEN [err |-> "none",
        c |-> NdArray(c.shape, [j \in DOMAIN c.data |->
                IF j = idx THEN (IF coeff = <<>> THEN 0 ELSE coeff[One])
                ELSE c.data[j]])]
  ELSE [err |-> "TypeError", c |-> c]

\* -------------------------------------------------------- poly_to_np_array
RECURSIVE FillLoop(_, _, _, _, _)
\* polynomial.py:65-69: for idx in itertools.product(*indices): build the
\* monomial of idx and store its coefficient at c[idx].
FillLoop(q, symbols, indices, t, c) ==
  IF t > Len(indices) THEN [err |-> "none", c |-> c]
  ELSE LET x == MonomialExpr(symbols, indices[t]).x
           st == StoreCoeff(c, indices[t], coeff_monomial(q, x))
       IN IF st.err /= "none" THEN st
          ELSE FillLoop(q, symbols, indices, t + 1, st.c)

\* ArrayShape with sides of length total_degree (range(D) for range(D + 1)).
ArrayShape_NoPlusOne(q, symbols) == Cube(Len(symbols), total_degree(q))

\* polynomial.py:62: [p.total_degree() + 1] * len(symbols).
ArrayShape(q, symbols) == Cube(Len(symbols), total_degree(q) + 1)

\* polynomial.py:61-71.  The coefficients stored are real numbers, so the
\* complex array has zero imaginary parts and np.real_if_close returns its
\* real parts.
poly_to_np_array(p, symbols) ==
  LET r == sympy_poly(p, symbols)
  IN IF r.err /= "none" THEN [err |-> r.err, ret |-> None]
     ELSE LET shape == ArrayShape(r.poly, symbols)
              filled == FillLoop(r.poly, symbols, Product(shape), 1, np_zeros(shape))
          IN IF filled.err /= "none" THEN [err |-> filled.err, ret |-> None]
             ELSE [err |-> "none", ret |-> filled.c]

\* -------------------------------------------------------- np_array_to_poly
\* SumBody pairing symbols and indices like zip(symbols, index): symbols
\* past the end of index are skipped instead of raising IndexError.
SumBody_Zip(c, symbols, index, f) ==
  LET n == IF Len(symbols) < Len(index) THEN Len(symbols) ELSE Len(index)
  IN [err |-> "none",
      f |-> ExprAdd(f, MonomialExpr(SubSeq(symbols, 1, n), index).x, c.data[index])]

\* polynomial.py:102-106: the loop's body for one index tuple:
\* x = 1; for i, s in enumerate(symbols): x *= s ** index[i]; f += c[index] * x.
SumBody(c, symbols, index, f) ==
  LET mx == MonomialExpr(symbols, index)
  IN IF mx.err /= "none" THEN [err |-> mx.err, f |-> f]
     ELSE [err |-> "none", f |-> ExprAdd(f, mx.x, c.data[index])]

RECURSIVE SumLoop(_, _, _, _, _)
\* polynomial.py:101: for index in itertools.product(*indices).
SumLoop(c, symbols, indices, t, f) ==
  IF t > Len(indices) THEN [err |-> "none", f |-> f]
  ELSE LET b == SumBody(c, symbols, indices[t], f)
       IN IF b.err /= "none" THEN b
          ELSE SumLoop(c, symbols, indices, t + 1, b.f)

\* polynomial.py:98-107.
np_array_to_poly(c, symbols) ==
  LET s == SumLoop(c, symbols, Product(c.shape), 1, Expr(<<>>))
  IN IF s.err /= "none" THEN [err |-> s.err, ret |-> None]
     ELSE LET r == sympy_poly(s.f, symbols)
          IN [err |-> r.err, ret |-> r.poly]

\* ------------------------------------------------------------------ inputs
\* The monomials of the enumerated terms: in the first MaxDim symbols, of
\* total degree at most MaxDeg.
Monomials ==
  LET U == RangeOf(Symbols(MaxDim))
  IN {[v \in {u \in U : f[u] /= 0} |-> <<f[v], 1>>] :
        f \in {g \in [U -> 0..MaxDeg] : SumOver(g, U) <= MaxDeg}}

\* Power products that are no monomials: a symbol under the exponent -1 (a
\* division by it) or 1/2, alone or times another symbol.
NonMonomials ==
  LET U == RangeOf(Symbols(MaxDim))
  IN {[u \in {v, w} |-> IF u = v THEN e ELSE <<1, 1>>] :
        v \in U, w \in U, e \in {<<-1, 1>>, <<1, 2>>}}

PowerProducts == Monomials \cup NonMonomials

\* a1 * x1 + a2 * x2 as sympy holds it: like terms collected, zeros dropped.
TwoTerms(x1, a1, x2, a2) ==
  LET co == [x \in {x1, x2} |->
               (IF x = x1 THEN a1 ELSE 0) + (IF x = x2 THEN a2 ELSE 0)]
  IN Expr([x \in {y \in {x1, x2} : co[y] /= 0} |-> co[x]])

Exprs ==
  {TwoTerms(x1, a1, x2, a2) :
      x1 \in PowerProducts, x2 \in PowerProducts,
      a1 \in ArrVals \cup {0}, a2 \in ArrVals \cup {0}}

\* tests/test_utils.py: p = 5*x**2 + 2*x*y + 3*y**2 + z**3.
TestPoly ==
  Expr((("x" :> <<2, 1>>) :> 5) @@ (("x" :> <<1, 1>> @@ "y" :> <<1, 1>>) :> 2)
       @@ (("y" :> <<2, 1>>) :> 3) @@ (("z" :> <<3, 1>>) :> 1))

\* tests/test_utils.py: the 4x4x4 array of the two tests.
TestArray ==
  NdArray(<<4, 4, 4>>,
          [idx \in Indices(<<4, 4, 4>>) |->
             IF idx = <<2, 0, 0>> THEN 5 ELSE IF idx = <<1, 1, 0>> THEN 2
             ELSE IF idx = <<0, 2, 0>> THEN 3 ELSE IF idx = <<0, 0, 3>> THEN 1
             ELSE 0])

InitPolyToArray ==
  /\ fn = "poly_to_np_array"
  /\ \/ /\ arg_p \in Exprs
        /\ \E n \in 1..MaxDim : arg_symbols = Symbols(n)
     \/ /\ arg_p = TestPoly
        /\ arg_symbols = Symbols(3)
  /\ arg_x = <<>>
  /\ arg_c = None
  /\ pc = "start"
  /\ k = 0
  /\ cur = None
  /\ ret = None
  /\ err = "none"

InitArrayToPoly ==
  /\ fn = "np_array_to_poly"
  /\ \/ /\ \E shape \in Shapes(0) : arg_c \in Arrays(shape)
        /\ \E n \in 1..MaxDim : arg_symbols = Symbols(n)
     \/ /\ arg_c = TestArray
        /\ arg_symbols = Symbols(3)
  /\ arg_x = <<>>
  /\ arg_p = None
  /\ pc = "start"
  /\ k = 0
  /\ cur = None
  /\ ret = None
  /\ err = "none"

\* A call of poly_to_np_array(p, symbols): it returns an array or raises.
PolyToNpArray ==
  /\ fn = "poly_to_np_array"
  /\ pc = "start"
  /\ LET r == poly_to_np_array(arg_p, arg_symbols)
     IN /\ err' = r.err
        /\ ret' = r.ret
        /\ pc' = IF r.err = "none" THEN "done" ELSE "raised"
  /\ UNCHANGED <<fn, arg_x, arg_c, arg_p, arg_symbols, k, cur>>

\* A call of np_array_to_poly(c, symbols): it returns a Poly or raises.
NpArrayToPoly ==
  /\ fn = "np_array_to_poly"
  /\ pc = "start"
  /\ LET r == np_array_to_poly(arg_c, arg_symbols)
     IN /\ err' = r.err
        /\ ret' = r.ret
        /\ pc' = IF r.err = "none" THEN "done" ELSE "raised"
  /\ UNCHANGED <<fn, arg_x, arg_c, arg_p, arg_symbols, k, cur>>

\* ----------------------------------------------------------- specification
Init == InitPolyval \/ InitPolyToArray \/ InitArrayToPoly

Next == PolyvalEnter \/ PolyvalStep \/ PolyvalReturn \/ PolyToNpArray \/ NpArrayToPoly

Spec == Init /\ [][Next]_vars

\* ------------------------------------------------------------- properties
\* A zero-axis array holding v: what polyval returns.
Scalar(v) == NdArray(<<>>, [idx \in {<<>>} |-> v])

RECURSIVE PointPower(_, _, _)
\* x[1]^idx[1] * ... * x[n]^idx[n].
PointPower(x, idx, n) ==
  IF n = 0 THEN 1 ELSE Pow(x[n], idx[n]) * PointPower(x, idx, n - 1)

\* The sum over the index tuples of c of c[i1..in] * x[1]^i1 * ... * x[n]^in.
DirectSum(x, c) ==
  LET f == [idx \in Indices(c.shape) |-> c.data[idx] * PointPower(x, idx, Len(idx))]
  IN SumOver(f, DOMAIN f)

\* The sum over the first n index components of c[head, tail] * x[1]^i1 * ... * x[n]^in.
PartialSum(x, c, n, tail) ==
  LET f == [head \in Indices(SubSeq(c.shape, 1, n)) |->
              c.data[head \o tail] * PointPower(x, head, n)]
  IN SumOver(f, DOMAIN f)

\* C1: when len(x) equals the number of axes of c, polyval(x, c) returns the
\* direct sum of c[i1..in] * x[0]^i1 * ... * x[n-1]^in (and it raises only
\* when the lengths differ).
C1_PolyvalIsDirectSum ==
  fn = "polyval" =>
    /\ pc = "done" => ret = Scalar(DirectSum(arg_x, arg_c))
    /\ pc = "raised" => Len(arg_x) /= Len(arg_c.shape)

\* C1's case: 2*x^2*y - y^2 at (2, -1) evaluates to -9.
C1_Witness ==
  /\ fn = "polyval"
  /\ pc = "done"
  /\ arg_c = SparseArray(<<3, 3>>, <<2, 1>>, 2, <<0, 2>>, -1)
  /\ arg_x = <<2, -1>>
  /\ ret = Scalar(-9)

\* C2: a point whose length differs from the number of axes makes polyval
\* raise the dimension error at once: no axis is reduced, nothing is returned.
C2_DimensionMismatchRaises ==
  (fn = "polyval" /\ pc /= "start" /\ Len(arg_x) /= Len(arg_c.shape)) =>
    /\ pc = "raised"
    /\ err = "ValueError"
    /\ k = 0
    /\ cur = None
    /\ ret = None

\* C2's case: a point shorter than the array's axes was rejected.
C2_Witness ==
  /\ fn = "polyval"
  /\ pc = "raised"
  /\ err = "ValueError"
  /\ Len(arg_x) = 1
  /\ Len(arg_c.shape) = 2

\* C2's other case (reachability only): a point that is too long was rejected.
C2_WitnessTooLong ==
  /\ fn = "polyval"
  /\ pc = "raised"
  /\ err = "ValueError"
  /\ Len(arg_x) = 2
  /\ Len(arg_c.shape) = 1

\* C9: after k loop steps the array has the original trailing n-k axes and
\* holds the partial sums over the first k axes; the loop makes n steps and
\* ends with a zero-axis value.
C9_LoopInvariant ==
  (fn = "polyval" /\ pc \in {"loop", "done"}) =>
    /\ k <= Len(arg_x)
    /\ cur.shape = SubSeq(arg_c.shape, k + 1, Len(arg_c.shape))
    /\ DOMAIN cur.data = Indices(cur.shape)
    /\ \A tail \in Indices(cur.shape) :
         cur.data[tail] = PartialSum(arg_x, arg_c, k, tail)
    /\ pc = "done" => (k = Len(arg_c.shape) /\ ret.shape = <<>>)

\* C9's case: one of two steps done on a 3x3 array, the remaining axis holds
\* the partial sums in x alone.
C9_Witness ==
  /\ fn = "polyval"
  /\ pc = "loop"
  /\ k = 1
  /\ arg_c = SparseArray(<<3, 3>>, <<2, 1>>, 2, <<1, 1>>, -1)
  /\ arg_x = <<2, -1>>
  /\ cur.shape = <<3>>
  /\ cur.data[<<1>>] = 6

\* Whether an expression is a polynomial in exactly the listed variables: no
\* other symbol occurs and every exponent is a natural number.
ValidPoly(p, symbols) ==
  \A x \in DOMAIN p.terms :
    /\ DOMAIN x \subseteq RangeOf(symbols)
    /\ \A v \in DOMAIN x : IsNatExp(x[v])

\* The total degree of an expression: the largest sum of the exponents of a
\* term, 0 when there is no term.
ExprDegree(p) ==
  LET deg(x) == SumOver([v \in DOMAIN x |-> x[v][1]], DOMAIN x)
      D == {deg(x) : x \in DOMAIN p.terms} \cup {0}
  IN CHOOSE d \in D : \A e \in D : e <= d

\* The coefficient in p of x1^i1 * ... * xn^in, 0 when the monomial is absent.
CoeffAt(p, symbols, idx) ==
  LET at == {x \in DOMAIN p.terms :
               \A i \in 1..Len(symbols) :
                 idx[i] = (IF symbols[i] \in DOMAIN x THEN x[symbols[i]][1] ELSE 0)}
  IN IF at = {} THEN 0 ELSE p.terms[CHOOSE x \in at : TRUE]

\* C3: for a polynomial p of total degree D in the n listed variables,
\* poly_to_np_array returns an array of n axes of length D+1 whose entry at
\* (i1..in) is the coefficient of x1^i1*...*xn^in in p, 0 where the monomial
\* does not occur; the test's polynomial gives the test's 4x4x4 array.
C3_ArrayHoldsCoefficients ==
  (fn = "poly_to_np_array" /\ pc /= "start" /\ ValidPoly(arg_p, arg_symbols)) =>
    /\ pc = "done"
    /\ err = "none"
    /\ ret.shape = Cube(Len(arg_symbols), ExprDegree(arg_p) + 1)
    /\ DOMAIN ret.data = Indices(ret.shape)
    /\ \A idx \in Indices(ret.shape) :
         ret.data[idx] = CoeffAt(arg_p, arg_symbols, idx)
    /\ arg_p = TestPoly => ret = TestArray

\* C3's case: the reference test's polynomial was converted to its array.
C3_Witness ==
  /\ fn = "poly_to_np_array"
  /\ pc = "done"
  /\ arg_p = TestPoly
  /\ ret.shape = <<4, 4, 4>>
  /\ ret.data[<<2, 0, 0>>] = 5
  /\ ret.data[<<0, 0, 3>>] = 1

\* The polynomial with the non-zero entries of c as its coefficients.
PolyOfArray(c, symbols) ==
  Poly(symbols, [m \in {idx \in Indices(c.shape) : c.data[idx] /= 0} |->
                   [r \in {One} |-> c.data[m]]])

\* A sequence back to front.
Reverse(s) == [i \in 1..Len(s) |-> s[Len(s) + 1 - i]]

\* C4: with as many symbols as c has axes, np_array_to_poly returns the
\* polynomial whose coefficient of x1^i1*...*xn^in is c[i1..in]; zero entries
\* add no term, and visiting the index tuples in the opposite order gives the
\* same polynomial.
C4_PolyIsSumOfEntries ==
  (fn = "np_array_to_poly" /\ pc /= "start"
     /\ Len(arg_symbols) = Len(arg_c.shape)) =>
    /\ pc = "done"
    /\ err = "none"
    /\ ret = PolyOfArray(arg_c, arg_symbols)
    /\ ret = sympy_poly(SumLoop(arg_c, arg_symbols, Reverse(Product(arg_c.shape)),
                                1, Expr(<<>>)).f, arg_symbols).poly

\* C4's case: the reference test's array was converted to its polynomial.
C4_Witness ==
  /\ fn = "np_array_to_poly"
  /\ pc = "done"
  /\ arg_c = TestArray
  /\ as_expr(ret) = TestPoly

\* C5: a polynomial in the listed variables survives the round trip
\* np_array_to_poly(poly_to_np_array(p, symbols), symbols): every term of p
\* is in the array and comes back.
C5_RoundTrip ==
  (fn = "poly_to_np_array" /\ pc /= "start" /\ ValidPoly(arg_p, arg_symbols)) =>
    /\ pc = "done"
    /\ LET back == np_array_to_poly(ret, arg_symbols)
       IN /\ back.err = "none"
          /\ as_expr(back.ret) = arg_p

\* C5's case: a polynomial with a mixed term of full degree, x*y + 2*y^2 or
\* the like, was converted.
C5_Witness ==
  /\ fn = "poly_to_np_array"
  /\ pc = "done"
  /\ arg_symbols = <<"x", "y">>
  /\ [v \in {"x", "y"} |-> <<1, 1>>] \in DOMAIN arg_p.terms
  /\ [v \in {"y"} |-> <<2, 1>>] \in DOMAIN arg_p.terms
  /\ ret.shape = <<3, 3>>

\* The total degree of the polynomial of c: the largest index sum of a
\* non-zero entry, 0 when there is none.
TrueDegree(c) ==
  LET D == {SumOver(idx, DOMAIN idx) : idx \in {j \in Indices(c.shape) : c.data[j] /= 0}}
           \cup {0}
  IN CHOOSE d \in D : \A e \in D : e <= d

\* Whether no slice of c at an index beyond its polynomial's degree, along
\* any axis, is all zero.
NoZeroSliceBeyondDegree(c) ==
  \A i \in 1..Len(c.shape) : \A j \in 0..(c.shape[i] - 1) :
    j > TrueDegree(c) => \E idx \in Indices(c.shape) : idx[i] = j /\ c.data[idx] /= 0

\* C6 as stated: an array of shape (m,...,m) with no all-zero slice beyond its
\* polynomial's degree comes back from
\* poly_to_np_array(np_array_to_poly(c, symbols), symbols) unchanged.
C6_InverseRoundTrip_AsStated ==
  (fn = "np_array_to_poly" /\ pc = "done"
     /\ Len(arg_symbols) = Len(arg_c.shape)
     /\ NoZeroSliceBeyondDegree(arg_c)) =>
    LET back == poly_to_np_array(ret, arg_symbols)
    IN back.err = "none" /\ back.ret = arg_c

\* C6 amended: the array comes back with n axes of length D+1, D the total
\* degree of its polynomial, each entry in place; it is c itself exactly when
\* D = m-1.
C6_InverseRoundTrip ==
  (fn = "np_array_to_poly" /\ pc = "done"
     /\ Len(arg_symbols) = Len(arg_c.shape)) =>
    LET back == poly_to_np_array(ret, arg_symbols)
        m == arg_c.shape[1]
    IN /\ back.err = "none"
       /\ back.ret.shape = Cube(Len(arg_c.shape), TrueDegree(arg_c) + 1)
       /\ \A idx \in Indices(back.ret.shape) :
            back.ret.data[idx] =
              (IF idx \in Indices(arg_c.shape) THEN arg_c.data[idx] ELSE 0)
       /\ (back.ret = arg_c) <=> (TrueDegree(arg_c) = m - 1)

\* C6's case: a 3x3 array of total degree 2 (x^2 and x*y) was converted, and
\* converting its polynomial back gives the array.
C6_Witness ==
  /\ fn = "np_array_to_poly"
  /\ pc = "done"
  /\ arg_symbols = <<"x", "y">>
  /\ arg_c = SparseArray(<<3, 3>>, <<2, 0>>, 2, <<1, 1>>, -1)
  /\ poly_to_np_array(ret, arg_symbols).ret = arg_c

\* Whether a listed variable occurs under a negative or fractional exponent
\* (a division by it, a root of it).
BadExponent(p, symbols) ==
  \E x \in DOMAIN p.terms : \E v \in DOMAIN x \cap RangeOf(symbols) : ~IsNatExp(x[v])

\* C7: an expression that is no polynomial in exactly the listed variables
\* makes poly_to_np_array fail and return no array: sympy refuses a listed
\* variable under a negative or fractional exponent, and otherwise a
\* coefficient holding an unlisted variable cannot be stored in the array.
C7_InvalidPolynomialFails ==
  (fn = "poly_to_np_array" /\ pc /= "start" /\ ~ValidPoly(arg_p, arg_symbols)) =>
    /\ pc = "raised"
    /\ ret = None
    /\ err = IF BadExponent(arg_p, arg_symbols) THEN "PolynomialError" ELSE "TypeError"

\* C7's case: x**(1/2) + 2*x over (x, y) was refused.
C7_Witness ==
  /\ fn = "poly_to_np_array"
  /\ pc = "raised"
  /\ arg_symbols = <<"x", "y">>
  /\ arg_p = TwoTerms([v \in {"x"} |-> <<1, 2>>], 1, [v \in {"x"} |-> <<1, 1>>], 2)
  /\ ret = None

\* C7's other cases (reachability only): a division by a listed variable, and
\* a variable that is not listed.
C7_WitnessDivision ==
  /\ fn = "poly_to_np_array"
  /\ pc = "raised"
  /\ arg_symbols = <<"x">>
  /\ arg_p = TwoTerms([v \in {"x"} |-> <<-1, 1>>], 1, One, 2)

C7_WitnessExtraVariable ==
  /\ fn = "poly_to_np_array"
  /\ pc = "raised"
  /\ err = "TypeError"
  /\ arg_symbols = <<"x">>
  /\ arg_p = TwoTerms([v \in {"x", "y"} |-> <<1, 1>>], 1, [v \in {"x"} |-> <<2, 1>>], 2)

\* C8: the zero polynomial over n variables gives the all-zero array of
\* shape (1,)*n, and polyval of that array at any point of length n is 0.
C8_ZeroPolynomial ==
  /\ (fn = "poly_to_np_array" /\ pc /= "start" /\ arg_p = Expr(<<>>)) =>
       /\ pc = "done"
       /\ ret.shape = Cube(Len(arg_symbols), 1)
       /\ DOMAIN ret.data = Indices(ret.shape)
       /\ \A idx \in Indices(ret.shape) : ret.data[idx] = 0
       /\ \A pt \in Points(Len(arg_symbols)) :
            polyval(pt, ret) = [err |-> "none", ret |-> Scalar(0)]
  /\ (fn = "polyval" /\ pc = "done" /\ arg_c = np_zeros(Cube(Len(arg_x), 1))) =>
       ret = Scalar(0)

\* C8's case: the zero polynomial over (x, y) was converted to the 1x1 zero array.
C8_Witness ==
  /\ fn = "poly_to_np_array"
  /\ pc = "done"
  /\ arg_p = Expr(<<>>)
  /\ arg_symbols = <<"x", "y">>
  /\ ret.shape = <<1, 1>>
  /\ ret.data[<<0, 0>>] = 0

\* The sum of the entries of c whose index tuple starts with head.
TrailSum(c, head) ==
  LET T == {idx \in Indices(c.shape) : SubSeq(idx, 1, Len(head)) = head}
  IN SumOver(c.data, T)

\* C10: np_array_to_poly does not compare len(symbols) with the axes of c:
\* with fewer symbols it returns the polynomial whose coefficient of
\* x1^i1*...*xk^ik is the sum of c[i1..ik, j...] over the unpaired trailing
\* axes; with more symbols it raises IndexError and returns nothing.
C10_UncheckedSymbolCount ==
  (fn = "np_array_to_poly" /\ pc /= "start") =>
    /\ Len(arg_symbols) < Len(arg_c.shape) =>
         /\ pc = "done"
         /\ err = "none"
         /\ ret = Poly(arg_symbols,
                       [m \in {h \in Indices(SubSeq(arg_c.shape, 1, Len(arg_symbols))) :
                                 TrailSum(arg_c, h) /= 0} |->
                          [r \in {One} |-> TrailSum(arg_c, m)]])
    /\ Len(arg_symbols) > Len(arg_c.shape) =>
         /\ pc = "raised"
         /\ err = "IndexError"
         /\ ret = None

\* C10's case: a 2x2 array with the single symbol x; c[1,0] = 2 and
\* c[1,1] = -1 are summed into the coefficient 1 of x.
C10_Witness ==
  /\ fn = "np_array_to_poly"
  /\ pc = "done"
  /\ arg_symbols = <<"x">>
  /\ arg_c = SparseArray(<<2, 2>>, <<1, 0>>, 2, <<1, 1>>, -1)
  /\ ret = Poly(<<"x">>, [m \in {<<1>>} |-> [r \in {One} |-> 1]])

\* C10's other case (reachability only): two symbols for a one-axis array.
C10_WitnessIndexError ==
  /\ fn = "np_array_to_poly"
  /\ pc = "raised"
  /\ err = "IndexError"
  /\ arg_symbols = <<"x", "y">>
  /\ Len(arg_c.shape) = 1

====
